---- MODULE Spec2Model ----
(***************************************************************************)
(* Model of bevy_mod_gba's sound adapter (src/src/audio.rs) and of the     *)
(* audio-relevant systems of the breakout example                          *)
(* (src/examples/breakout.rs).                                             *)
(*                                                                         *)
(* The resource registry is keyed by type; each key holds a set with at    *)
(* most one value (empty = the resource does not exist).                   *)
(***************************************************************************)
EXTENDS Integers, Sequences, FiniteSets, TLC

\* ---------------------------------------------------------------- bounds
MaxTicks == 3
MaxCollisions == 2
MaxFinish == 2
MaxVal == 1

\* ------------------------------------------------------------- vocabulary
NoFrequency == "None"
Frequencies == {"Hz10512", "Hz18157", "Hz32768"}

Keys == {"RawSound", "MixerController", "Sound", "Channel1", "Channel2", "Noise", "Mixer"}

EmptyRegistry == [k \in Keys |-> {}]

\* The order in which the engine's main schedule runs its stages in one tick.
MainScheduleOrder == <<"First", "PreUpdate", "Update", "PostUpdate", "Last">>

\* AgbSoundPlugin { enable_dmg, mixer_frequency }
PluginConfigs == [enable_dmg : BOOLEAN, mixer_frequency : {NoFrequency} \cup Frequencies]

\* The configuration the example passes to AgbPlugin.set(...)
DemoConfig == [enable_dmg |-> TRUE, mixer_frequency |-> "Hz10512"]

\* The systems the example chains into Update that touch collision events
\* or the mixer (apply_velocity and move_paddle precede them and touch
\* neither; the number of collisions they lead to is an input below).
DemoSystems == <<"check_for_collisions", "play_collision_sound">>

DemoStage == "Update"

\* ------------------------------------------------------- audio.rs helpers
SyncStageFirst == "First"

\* build: the schedule stage the sync system is added to
SyncStage == "PostUpdate"

BuildSystemsTwice == <<"sync", "sync">>

\* build: the systems it adds (exactly one closure)
BuildSystems == <<"sync">>

RemoveNonSendPeek(reg, key) == [value |-> reg[key], reg |-> reg]

\* World::remove_non_send_resource::<T>(): yields the value and leaves none
RemoveNonSendResource(reg, key) == [value |-> reg[key], reg |-> [reg EXCEPT ![key] = {}]]

\* Resource insertion replaces whatever value the type key held
InsertResource(reg, key, val) == [reg EXCEPT ![key] = {val}]

\* Channel::<1>::from_sound: fields name the hardware channel of each handle
FromSound1 == [c1 |-> 1, c2 |-> 2]

\* Channel::<2>::from_sound
FromSound2 == [c1 |-> 1, c2 |-> 2]

\* Noise(sound.noise())
NoiseOf == [inner |-> "noise"]

\* Deref / DerefMut for Channel<1>
Deref1(w) == w.c1

DerefMut1(w) == w.c1

Deref2CopyPaste(w) == w.c1

\* Deref / DerefMut for Channel<2>
Deref2(w) == w.c2

DerefMut2(w) == w.c2

Deref(n, w) == IF n = 1 THEN Deref1(w) ELSE Deref2(w)

DerefMut(n, w) == IF n = 1 THEN DerefMut1(w) ELSE DerefMut2(w)

ChannelKey(n) == IF n = 1 THEN "Channel1" ELSE "Channel2"

\* mixer_controller.mixer(frequency): a mixer that is not yet enabled
NewMixer(frequency) ==
    [frequency |-> frequency, enabled |-> FALSE, frames |-> 0, queued |-> 0, mixed |-> 0]

MixerEnableSkipped(m) == m

\* mixer.enable()
MixerEnable(m) == [m EXCEPT !.enabled = TRUE]

\* mixer.frame(): the sounds queued so far enter the playback buffer
MixerFrame(m) == [m EXCEPT !.frames = @ + 1, !.mixed = @ + m.queued, !.queued = 0]

\* mixer.play_sound(channel)
MixerPlaySound(m) == [m EXCEPT !.queued = @ + 1]

FinishDmgUnwrap(reg, enable_dmg) ==
    IF enable_dmg
    THEN LET r == RemoveNonSendResource(reg, "RawSound") IN
         IF r.value # {}
         THEN [reg |-> InsertResource(InsertResource(InsertResource(r.reg,
                          "Channel1", FromSound1), "Channel2", FromSound2), "Noise", NoiseOf),
               enableCalls |-> 1, panic |-> FALSE]
         ELSE [reg |-> r.reg, enableCalls |-> 0, panic |-> TRUE]
    ELSE [reg |-> reg, enableCalls |-> 0, panic |-> FALSE]

FinishDmgNoNoise(reg, enable_dmg) ==
    IF enable_dmg
    THEN LET r == RemoveNonSendResource(reg, "RawSound") IN
         IF r.value # {}
         THEN [reg |-> InsertResource(InsertResource(r.reg,
                          "Channel1", FromSound1), "Channel2", FromSound2),
               enableCalls |-> 1, panic |-> FALSE]
         ELSE [reg |-> r.reg, enableCalls |-> 0, panic |-> FALSE]
    ELSE [reg |-> reg, enableCalls |-> 0, panic |-> FALSE]

FinishDmgAlways(reg, enable_dmg) ==
    LET r == RemoveNonSendResource(reg, "RawSound") IN
    IF r.value # {}
    THEN [reg |-> InsertResource(InsertResource(InsertResource(r.reg,
                     "Channel1", FromSound1), "Channel2", FromSound2), "Noise", NoiseOf),
          enableCalls |-> 1, panic |-> FALSE]
    ELSE [reg |-> r.reg, enableCalls |-> 0, panic |-> FALSE]

\* finish, first block: the DMG chip
FinishDmg(reg, enable_dmg) ==
    IF enable_dmg
    THEN LET r == RemoveNonSendResource(reg, "RawSound") IN
         IF r.value # {}
         THEN [reg |-> InsertResource(InsertResource(InsertResource(r.reg,
                          "Channel1", FromSound1), "Channel2", FromSound2), "Noise", NoiseOf),
               enableCalls |-> 1, panic |-> FALSE]
         ELSE [reg |-> r.reg, enableCalls |-> 0, panic |-> FALSE]
    ELSE [reg |-> reg, enableCalls |-> 0, panic |-> FALSE]

\* finish, second block: the mixer
FinishMixer(reg, frequency) ==
    IF frequency # NoFrequency
    THEN LET r == RemoveNonSendResource(reg, "MixerController") IN
         IF r.value # {}
         THEN [reg |-> InsertResource(r.reg, "Mixer", MixerEnable(NewMixer(frequency))),
               enableCalls |-> 1, leaked |-> 1]
         ELSE [reg |-> r.reg, enableCalls |-> 0, leaked |-> 0]
    ELSE [reg |-> reg, enableCalls |-> 0, leaked |-> 0]

\* ----------------------------------------------------- breakout.rs helpers
ReaderKeep(lastCount, eventCount) == lastCount

\* EventReader::clear(): every event sent so far counts as read
ReaderClear(lastCount, eventCount) == eventCount

\* EventReader::len(): events sent and not yet read by this reader
ReaderLen(lastCount, eventCount) == eventCount - lastCount

\* EventReader::is_empty()
ReaderIsEmpty(lastCount, eventCount) == ReaderLen(lastCount, eventCount) = 0

RECURSIVE Flatten(_, _)
Flatten(sched, i) ==
    IF i > Len(MainScheduleOrder) THEN <<>>
    ELSE sched[MainScheduleOrder[i]] \o Flatten(sched, i + 1)

\* The systems of one tick in the order the main schedule runs them
TickSchedule(sched) == Flatten(sched, 1)

\* ------------------------------------------------------------------ state
VARIABLES
    cfg,              \* the AgbSoundPlugin value
    demo,             \* TRUE iff the app is the breakout example
    pc,               \* "plugins" | "running" | "tick" | "panicked"
    built,            \* AgbSoundPlugin::build has run
    hwBuilt,          \* the hardware startup plugin's build has run
    schedule,         \* stage -> sequence of systems
    registry,         \* type key -> set holding at most one value
    soundEnableCalls, \* calls of dmg::Sound::enable
    mixerEnableCalls, \* calls of Mixer::enable
    leaked,           \* controllers promoted with Box::leak
    finishCalls,      \* calls of AgbSoundPlugin::finish
    firstSaw,         \* which raw controllers the first finish found
    ticks,            \* completed update ticks
    todo,             \* systems still to run in the current tick
    frameCallsTick,   \* Mixer::frame calls in the current tick
    playCallsTick,    \* Mixer::play_sound calls in the current tick
    collidedTick,     \* collisions reported in the current tick
    events,           \* CollisionEvents sent so far
    reader,           \* play_collision_sound's reader: events read so far
    servicedRaw,      \* TRUE once frame was called on a mixer not enabled
    panicAt,          \* the system or hook that panicked, or "none"
    hwChan,           \* hardware registers of pulse channels 1 and 2
    lastOp            \* the last operation done through a Channel<N> wrapper

vars == <<cfg, demo, pc, built, hwBuilt, schedule, registry, soundEnableCalls,
          mixerEnableCalls, leaked, finishCalls, firstSaw, ticks, todo,
          frameCallsTick, playCallsTick, collidedTick, events, reader,
          servicedRaw, panicAt, hwChan, lastOp>>

configVars == <<cfg, demo>>
tickVars == <<ticks, todo, frameCallsTick, playCallsTick, collidedTick>>
eventVars == <<events, reader>>
finishVars == <<soundEnableCalls, mixerEnableCalls, leaked, finishCalls, firstSaw>>
chanVars == <<hwChan, lastOp>>

NoOp == [kind |-> "none", n |-> 0, v |-> 0]

Init ==
    /\ demo \in BOOLEAN
    /\ cfg \in PluginConfigs
    /\ demo => cfg = DemoConfig
    /\ pc = "plugins"
    /\ built = FALSE
    /\ hwBuilt = FALSE
    /\ schedule = [s \in {MainScheduleOrder[i] : i \in 1..Len(MainScheduleOrder)} |->
                      IF demo /\ s = DemoStage THEN DemoSystems ELSE <<>>]
    /\ registry = EmptyRegistry
    /\ soundEnableCalls = 0
    /\ mixerEnableCalls = 0
    /\ leaked = 0
    /\ finishCalls = 0
    /\ firstSaw = [sound |-> FALSE, mixer |-> FALSE]
    /\ ticks = 0
    /\ todo = <<>>
    /\ frameCallsTick = 0
    /\ playCallsTick = 0
    /\ collidedTick = 0
    /\ events = 0
    /\ reader = 0
    /\ servicedRaw = FALSE
    /\ panicAt = "none"
    /\ hwChan = [n \in 1..2 |-> 0]
    /\ lastOp = NoOp

\* ---------------------------------------------------------------- actions

\* AgbSoundPlugin::build
Build ==
    /\ pc = "plugins"
    /\ ~built
    /\ built' = TRUE
    /\ schedule' = [schedule EXCEPT ![SyncStage] = @ \o BuildSystems]
    /\ UNCHANGED <<configVars, pc, hwBuilt, registry, finishVars, tickVars,
                   eventVars, servicedRaw, panicAt, chanVars>>

\* The hardware startup plugin's build: deposits both raw controllers
HardwarePluginBuild ==
    /\ pc = "plugins"
    /\ ~hwBuilt
    /\ hwBuilt' = TRUE
    /\ registry' = InsertResource(InsertResource(registry,
                        "RawSound", [enabled |-> FALSE]),
                        "MixerController", [leaked |-> FALSE])
    /\ UNCHANGED <<configVars, pc, built, schedule, finishVars, tickVars,
                   eventVars, servicedRaw, panicAt, chanVars>>

\* Another plugin takes a raw controller before finish runs
OtherPluginConsume(key) ==
    /\ pc = "plugins"
    /\ registry[key] # {}
    /\ registry' = RemoveNonSendResource(registry, key).reg
    /\ UNCHANGED <<configVars, pc, built, hwBuilt, schedule, finishVars, tickVars,
                   eventVars, servicedRaw, panicAt, chanVars>>

\* AgbSoundPlugin::finish
Finish ==
    /\ built
    /\ pc \in {"plugins", "running"}
    /\ finishCalls < MaxFinish
    /\ LET d == FinishDmg(registry, cfg.enable_dmg)
           m == FinishMixer(d.reg, cfg.mixer_frequency)
       IN /\ finishCalls' = finishCalls + 1
          /\ firstSaw' = IF finishCalls = 0
                         THEN [sound |-> registry["RawSound"] # {},
                               mixer |-> registry["MixerController"] # {}]
                         ELSE firstSaw
          /\ soundEnableCalls' = soundEnableCalls + d.enableCalls
          /\ IF d.panic
             THEN /\ pc' = "panicked"
                  /\ panicAt' = "finish"
                  /\ registry' = d.reg
                  /\ UNCHANGED <<mixerEnableCalls, leaked>>
             ELSE /\ pc' = "running"
                  /\ panicAt' = panicAt
                  /\ registry' = m.reg
                  /\ mixerEnableCalls' = mixerEnableCalls + m.enableCalls
                  /\ leaked' = leaked + m.leaked
    /\ UNCHANGED <<configVars, built, hwBuilt, schedule, tickVars, eventVars,
                   servicedRaw, chanVars>>

\* The runner starts one update: the main schedule's systems are lined up
TickStart ==
    /\ pc = "running"
    /\ ticks < MaxTicks
    /\ pc' = "tick"
    /\ todo' = TickSchedule(schedule)
    /\ frameCallsTick' = 0
    /\ playCallsTick' = 0
    /\ collidedTick' = 0
    /\ UNCHANGED <<configVars, built, hwBuilt, schedule, registry, finishVars, ticks,
                   eventVars, servicedRaw, panicAt, chanVars>>

\* check_for_collisions: one event per collider the ball hits
CheckForCollisions(n) ==
    /\ pc = "tick"
    /\ todo # <<>>
    /\ Head(todo) = "check_for_collisions"
    /\ todo' = Tail(todo)
    /\ events' = events + n
    /\ collidedTick' = n
    /\ UNCHANGED <<configVars, pc, built, hwBuilt, schedule, registry, finishVars, ticks,
                   frameCallsTick, playCallsTick, reader, servicedRaw, panicAt, chanVars>>

\* play_collision_sound; its NonSendMut<Mixer> parameter needs the resource
PlayCollisionSound ==
    /\ pc = "tick"
    /\ todo # <<>>
    /\ Head(todo) = "play_collision_sound"
    /\ IF registry["Mixer"] = {}
       THEN /\ pc' = "panicked"
            /\ panicAt' = "play_collision_sound"
            /\ UNCHANGED <<todo, registry, playCallsTick, reader>>
       ELSE LET m == CHOOSE x \in registry["Mixer"] : TRUE
            IN /\ IF ~ReaderIsEmpty(reader, events)
                  THEN /\ registry' = InsertResource(registry, "Mixer", MixerPlaySound(m))
                       /\ playCallsTick' = playCallsTick + 1
                  ELSE UNCHANGED <<registry, playCallsTick>>
               /\ reader' = ReaderClear(reader, events)
               /\ todo' = Tail(todo)
               /\ UNCHANGED <<pc, panicAt>>
    /\ UNCHANGED <<configVars, built, hwBuilt, schedule, finishVars, ticks,
                   frameCallsTick, collidedTick, events, servicedRaw, chanVars>>

\* The closure build adds: Option<NonSendMut<Mixer>>, frame() if present
SyncSystem ==
    /\ pc = "tick"
    /\ todo # <<>>
    /\ Head(todo) = "sync"
    /\ todo' = Tail(todo)
    /\ IF registry["Mixer"] # {}
       THEN LET m == CHOOSE x \in registry["Mixer"] : TRUE
            IN /\ registry' = InsertResource(registry, "Mixer", MixerFrame(m))
               /\ frameCallsTick' = frameCallsTick + 1
               /\ servicedRaw' = (servicedRaw \/ ~m.enabled)
       ELSE UNCHANGED <<registry, frameCallsTick, servicedRaw>>
    /\ UNCHANGED <<configVars, pc, built, hwBuilt, schedule, finishVars, ticks,
                   playCallsTick, collidedTick, eventVars, panicAt, chanVars>>

\* The main schedule has run all its systems: the update is complete
TickEnd ==
    /\ pc = "tick"
    /\ todo = <<>>
    /\ pc' = "running"
    /\ ticks' = ticks + 1
    /\ UNCHANGED <<configVars, built, hwBuilt, schedule, registry, finishVars, todo,
                   frameCallsTick, playCallsTick, collidedTick, eventVars,
                   servicedRaw, panicAt, chanVars>>

\* A mutation done through the Channel<n> resource (DerefMut)
ChannelWrite(n, v) ==
    /\ pc = "running"
    /\ registry[ChannelKey(n)] # {}
    /\ LET w == CHOOSE x \in registry[ChannelKey(n)] : TRUE
       IN hwChan' = [hwChan EXCEPT ![DerefMut(n, w)] = v]
    /\ lastOp' = [kind |-> "write", n |-> n, v |-> v]
    /\ UNCHANGED <<configVars, pc, built, hwBuilt, schedule, registry, finishVars,
                   tickVars, eventVars, servicedRaw, panicAt>>

\* A read done through the Channel<n> resource (Deref)
ChannelRead(n) ==
    /\ pc = "running"
    /\ registry[ChannelKey(n)] # {}
    /\ LET w == CHOOSE x \in registry[ChannelKey(n)] : TRUE
       IN lastOp' = [kind |-> "read", n |-> n, v |-> hwChan[Deref(n, w)]]
    /\ UNCHANGED <<configVars, pc, built, hwBuilt, schedule, registry, finishVars,
                   tickVars, eventVars, servicedRaw, panicAt, hwChan>>

Next ==
    \/ Build
    \/ HardwarePluginBuild
    \/ \E key \in {"RawSound", "MixerController"} : OtherPluginConsume(key)
    \/ Finish
    \/ TickStart
    \/ \E n \in 0..MaxCollisions : CheckForCollisions(n)
    \/ PlayCollisionSound
    \/ SyncSystem
    \/ TickEnd
    \/ \E n \in 1..2, v \in 0..MaxVal : ChannelWrite(n, v)
    \/ \E n \in 1..2 : ChannelRead(n)

Spec == Init /\ [][Next]_vars

\* ----------------------------------------------------------------- claims

\* A step that is one call of finish
FinishStep == finishCalls' = finishCalls + 1

MixerPresent == registry["Mixer"] # {}

TheMixer == CHOOSE x \in registry["Mixer"] : TRUE

\* Every system of the current tick has run
TickComplete == pc = "tick" /\ todo = <<>>

Remaining == {todo[i] : i \in 1..Len(todo)}

\* C1: with enable_dmg and the raw DMG controller in the registry at finish,
\* afterwards exactly one Channel<1>, one Channel<2> and one Noise resource
\* exist and the raw DMG controller is gone from the registry.
C1_ExclusiveActivation ==
    (finishCalls >= 1 /\ cfg.enable_dmg /\ firstSaw.sound) =>
        /\ Cardinality(registry["Channel1"]) = 1
        /\ Cardinality(registry["Channel2"]) = 1
        /\ Cardinality(registry["Noise"]) = 1
        /\ registry["RawSound"] = {}

C1_Witness ==
    /\ pc = "running"
    /\ finishCalls = 1
    /\ cfg.enable_dmg
    /\ firstSaw.sound
    /\ registry["Noise"] = {NoiseOf}

\* C2: the mixer is never serviced before it is activated: a mixer resource
\* that the sync system can see is enabled, frame was never called on a mixer
\* that was not, and with a frequency configured and the raw mixer controller
\* present at finish the mixer resource exists, enabled, from then on.
C2_ActivatedBeforeService ==
    /\ ~servicedRaw
    /\ \A m \in registry["Mixer"] : m.enabled
    /\ (finishCalls >= 1 /\ cfg.mixer_frequency # NoFrequency /\ firstSaw.mixer) =>
           /\ MixerPresent
           /\ \A m \in registry["Mixer"] : m.enabled /\ m.frequency = cfg.mixer_frequency

C2_Witness ==
    /\ MixerPresent
    /\ TheMixer.enabled
    /\ TheMixer.frames >= 1
    /\ mixerEnableCalls = 1

\* C3: in every tick, counting the calls of every system, frame is called
\* exactly once if a mixer resource exists and not at all (and without a
\* panic of the sync system) if none does; after N ticks with a mixer the
\* mixer has been serviced N times.
C3_OncePerTick ==
    /\ frameCallsTick <= 1
    /\ TickComplete => frameCallsTick = (IF MixerPresent THEN 1 ELSE 0)
    /\ (pc = "running" /\ MixerPresent) => TheMixer.frames = ticks
    /\ panicAt # "sync"

C3_Witness ==
    /\ pc = "running"
    /\ ticks >= 2
    /\ MixerPresent
    /\ TheMixer.frames = ticks

\* C4: a finish that finds a raw controller absent does not panic, inserts
\* none of that feature's resources and makes no activation call for it,
\* whatever the configuration.
C4_AbsentControllerSkipped ==
    [][FinishStep =>
          /\ pc' = "running"
          /\ panicAt' = "none"
          /\ registry["RawSound"] = {} =>
                /\ soundEnableCalls' = soundEnableCalls
                /\ \A k \in {"Channel1", "Channel2", "Noise"} : registry'[k] = registry[k]
          /\ registry["MixerController"] = {} =>
                /\ mixerEnableCalls' = mixerEnableCalls
                /\ registry'["Mixer"] = registry["Mixer"]]_vars

C4_Witness ==
    /\ pc = "running"
    /\ finishCalls >= 1
    /\ cfg.enable_dmg
    /\ cfg.mixer_frequency # NoFrequency
    /\ ~firstSaw.sound
    /\ ~firstSaw.mixer
    /\ registry = EmptyRegistry

\* C5: a second call of finish leaves the registry unchanged and does not
\* panic, and over all calls of finish each raw controller is activated at
\* most once.
C5_SecondFinishNoOp ==
    /\ [][(FinishStep /\ finishCalls >= 1) =>
             /\ registry' = registry
             /\ soundEnableCalls' = soundEnableCalls
             /\ mixerEnableCalls' = mixerEnableCalls
             /\ leaked' = leaked
             /\ pc' = "running"]_vars
    /\ [](soundEnableCalls <= 1 /\ mixerEnableCalls <= 1)

C5_Witness ==
    /\ finishCalls >= 2
    /\ soundEnableCalls = 1
    /\ mixerEnableCalls = 1
    /\ MixerPresent
    /\ registry["Channel1"] # {}

\* C6: a disabled feature is left untouched by finish whatever the other
\* toggle is: with enable_dmg false the raw DMG controller is neither removed
\* nor activated and no channel or noise resource is inserted; with no
\* frequency the raw mixer controller is neither removed nor activated and no
\* mixer is inserted; with both disabled none of these resources exists.
C6_DisabledUntouched ==
    /\ [][FinishStep =>
             /\ ~cfg.enable_dmg =>
                   /\ soundEnableCalls' = soundEnableCalls
                   /\ \A k \in {"RawSound", "Channel1", "Channel2", "Noise"} :
                          registry'[k] = registry[k]
             /\ cfg.mixer_frequency = NoFrequency =>
                   /\ mixerEnableCalls' = mixerEnableCalls
                   /\ leaked' = leaked
                   /\ \A k \in {"MixerController", "Mixer"} : registry'[k] = registry[k]]_vars
    /\ []((finishCalls >= 1 /\ ~cfg.enable_dmg /\ cfg.mixer_frequency = NoFrequency) =>
             \A k \in {"Channel1", "Channel2", "Noise", "Mixer"} : registry[k] = {})

C6_Witness ==
    /\ finishCalls >= 1
    /\ ~cfg.enable_dmg
    /\ cfg.mixer_frequency # NoFrequency
    /\ registry["RawSound"] # {}
    /\ registry["MixerController"] = {}
    /\ MixerPresent
    /\ soundEnableCalls = 0

\* C7: the sync system is in PostUpdate and play_collision_sound in Update;
\* within a tick no sound is enqueued after the mixer was serviced, and when
\* the tick is complete every sound enqueued in it has been seen by that
\* tick's servicing.
C7_SyncAfterEnqueue ==
    /\ [][playCallsTick' > playCallsTick => frameCallsTick = 0]_vars
    /\ []((TickComplete /\ MixerPresent) =>
             /\ TheMixer.queued = 0
             /\ frameCallsTick = 1)
    /\ [](built => \E i \in 1..Len(schedule["PostUpdate"]) :
                      schedule["PostUpdate"][i] = "sync")
    /\ [](demo => \E i \in 1..Len(schedule["Update"]) :
                     schedule["Update"][i] = "play_collision_sound")

C7_Witness ==
    /\ demo
    /\ TickComplete
    /\ playCallsTick = 1
    /\ frameCallsTick = 1
    /\ TheMixer.queued = 0
    /\ TheMixer.mixed >= 1

\* C8: an operation done through the Channel<N> resource acts on hardware
\* channel N and on no other: a write through wrapper N sets channel N's
\* register and leaves the other alone, a read through wrapper N yields
\* channel N's register, and the shared and the mutable view of a wrapper
\* are the same handle.
C8_ChannelTransparency ==
    /\ [][lastOp' # lastOp =>
             /\ lastOp'.kind = "write" =>
                   hwChan' = [hwChan EXCEPT ![lastOp'.n] = lastOp'.v]
             /\ lastOp'.kind = "read" =>
                   /\ lastOp'.v = hwChan[lastOp'.n]
                   /\ hwChan' = hwChan]_vars
    /\ [](\A n \in 1..2 : \A w \in registry[ChannelKey(n)] :
             /\ Deref(n, w) = n
             /\ DerefMut(n, w) = n)

C8_Witness ==
    /\ lastOp = [kind |-> "read", n |-> 2, v |-> 1]
    /\ hwChan[1] = 0
    /\ hwChan[2] = 1

\* C9: with enable_dmg false and the raw DMG controller deposited, after
\* finish the plugin has not enabled the chip and a Sound wrapper resource is
\* in the resource table for the caller to enable it.
C9_SoundWrapperAvailable ==
    (finishCalls >= 1 /\ ~cfg.enable_dmg /\ firstSaw.sound) =>
        /\ soundEnableCalls = 0
        /\ registry["Sound"] # {}

\* C10: play_collision_sound enqueues at most one sound per tick: once it has
\* run in a tick it has enqueued exactly one sound if that tick reported a
\* collision and none otherwise, and no CollisionEvent is left unread, so a
\* collision of one tick plays no sound in a later one.
C10_OneSoundPerTick ==
    /\ playCallsTick <= 1
    /\ (demo /\ pc = "tick" /\ Remaining \cap {"check_for_collisions", "play_collision_sound"} = {}) =>
           /\ playCallsTick = (IF collidedTick > 0 THEN 1 ELSE 0)
           /\ ReaderLen(reader, events) = 0
    /\ (demo /\ pc = "running") => ReaderLen(reader, events) = 0

C10_Witness ==
    /\ demo
    /\ pc = "tick"
    /\ todo = <<"sync">>
    /\ ticks >= 1
    /\ collidedTick = 2
    /\ playCallsTick = 1
    /\ events >= 3

====
